---------------------------- MODULE Spec2Model ----------------------------
(***************************************************************************)
(* Model of keep/api/models/alert.py: the AlertSeverity and AlertStatus    *)
(* enumerations and the construction of an AlertDto from a raw payload    *)
(* (pydantic v1 BaseModel: pre root validator, per-field validators in     *)
(* declaration order, extras, post root validator), its equality and its   *)
(* JSON rendering.                                                         *)
(*                                                                         *)
(* Python values are one-key (or two-key) records, so that values of       *)
(* different Python types are different TLA+ values:                       *)
(*   [none |-> TRUE]            None                                       *)
(*   [bool |-> b]               True / False                               *)
(*   [int |-> n]                an int                                     *)
(*   [str |-> s]                a str of plain text                        *)
(*   [at |-> t, form |-> f]     a str holding the instant t written in     *)
(*                              the timestamp notation f (see Forms)       *)
(*   [chars |-> <<c1,...>>]     a str given character by character         *)
(*   [sha256 |-> <<...>>]       the 64-character hex digest of the text    *)
(*                              whose pieces are <<...>>                    *)
(*   [enum |-> name, cls |-> c] the member of Enum class c whose value is  *)
(*                              name                                       *)
(*   [dict |-> {<<k, v>>,...}]  a dict                                     *)
(*   [list |-> {v, ...}]        a list (only membership is used)           *)
(* A payload, and the values dict of a validation run, is a function from  *)
(* the keys present to such values.                                        *)
(***************************************************************************)
EXTENDS Integers, Sequences, FiniteSets, TLC

\* The clock runs over 0..MaxTime.
MaxTime == 3

\* How many characters the longest explicit fingerprint exceeds the limit by.
MaxExcess == 2

\* fingerprint[:255]
FingerprintLimit == 255

\* len(hashlib.sha256(...).hexdigest())
HexDigestLen == 64

None == [none |-> TRUE]
PyBool(b) == [bool |-> b]
PyInt(n) == [int |-> n]
PyStr(s) == [str |-> s]
Stamp(t, f) == [at |-> t, form |-> f]
Chars(n) == [chars |-> [i \in 1..n |-> IF i % 2 = 1 THEN "a" ELSE "b"]]
Dict(pairs) == [dict |-> pairs]
List(items) == [list |-> items]

IsNone(v) == DOMAIN v = {"none"}
IsBool(v) == DOMAIN v = {"bool"}
\* isinstance(v, int): bool is a subclass of int
IsInt(v) == DOMAIN v = {"int"} \/ DOMAIN v = {"bool"}
IsStr(v) == DOMAIN v = {"str"} \/ DOMAIN v = {"at", "form"} \/ DOMAIN v = {"chars"}
           \/ DOMAIN v = {"sha256"}
IsStamp(v) == DOMAIN v = {"at", "form"}
IsDict(v) == DOMAIN v = {"dict"}
IsList(v) == DOMAIN v = {"list"}
IsEnum(v) == DOMAIN v = {"cls", "enum"}

\* The number an int (or bool) stands for.
IntOf(v) == IF IsBool(v) THEN (IF v.bool THEN 1 ELSE 0) ELSE v.int

\* Python truthiness: `if v`, `not v`.
Truthy(v) ==
    CASE IsNone(v) -> FALSE
      [] IsBool(v) -> v.bool
      [] DOMAIN v = {"int"} -> v.int # 0
      [] DOMAIN v = {"str"} -> v.str # ""
      [] DOMAIN v = {"chars"} -> Len(v.chars) > 0
      [] IsDict(v) -> v.dict # {}
      [] IsList(v) -> v.list # {}
      [] OTHER -> TRUE

\* dict.get(key) with the default None.
Get(d, k) == IF k \in DOMAIN d THEN d[k] ELSE None

\* d[key] = v
Put(d, k, v) == [x \in DOMAIN d \cup {k} |-> IF x = k THEN v ELSE d[x]]

\* d.pop(key, None), the dict that is left
Pop(d, k) == [x \in DOMAIN d \ {k} |-> d[x]]

\* Timestamp notations of a str:
\*   "iso"     2024-01-01T00:00:0t.000000+00:00  (datetime.isoformat() in UTC)
\*   "strict"  2024-01-01T00:00:0t.000000Z
\*   "millis"  2024-01-01T00:00:0t.000Z
\*   "naive"   2024-01-01 00:00:0t
Forms == {"iso", "strict", "millis", "naive"}

-----------------------------------------------------------------------------
(* AlertSeverity and AlertStatus *)

AlertSeverity == [critical |-> 5, high |-> 4, warning |-> 3, info |-> 2, low |-> 1]

AlertStatus == {"firing", "resolved", "acknowledged", "suppressed", "pending"}

Member(c, name) == [enum |-> name, cls |-> c]

\* The result of a call that may raise: ok with its value, or the exception.
Ok(v) == [ok |-> TRUE, v |-> v, exc |-> "none"]
Raise(e) == [ok |-> FALSE, v |-> None, exc |-> e]

\* from_number gone wrong: the n-th member in declaration order, not the
\* member whose order is n.
from_number_by_position(n) ==
    IF IntOf(n) \in 1..5
    THEN Ok(Member("AlertSeverity",
                   <<"critical", "high", "warning", "info", "low">>[IntOf(n)]))
    ELSE Raise("ValueError")

\* AlertSeverity.from_number(n): the member whose order == n, else ValueError.
from_number(n) ==
    IF \E s \in DOMAIN AlertSeverity : AlertSeverity[s] = IntOf(n)
    THEN Ok(Member("AlertSeverity",
                   CHOOSE s \in DOMAIN AlertSeverity : AlertSeverity[s] = IntOf(n)))
    ELSE Raise("ValueError")

\* AlertSeverity(value): the member with that value (a member is returned as
\* it is), else ValueError.
SeverityByValue(v) ==
    IF IsEnum(v) /\ v.cls = "AlertSeverity" THEN Ok(v)
    ELSE IF DOMAIN v = {"str"} /\ v.str \in DOMAIN AlertSeverity
    THEN Ok(Member("AlertSeverity", v.str))
    ELSE Raise("ValueError")

\* AlertStatus(value)
StatusByValue(v) ==
    IF IsEnum(v) /\ v.cls = "AlertStatus" THEN Ok(v)
    ELSE IF DOMAIN v = {"str"} /\ v.str \in AlertStatus
    THEN Ok(Member("AlertStatus", v.str))
    ELSE Raise("ValueError")

-----------------------------------------------------------------------------
(* Conversions *)

\* str.lower() on the flag spellings the payloads use.
Lower(s) ==
    CASE s = "TRUE" -> "true"
      [] s = "True" -> "true"
      [] s = "FALSE" -> "false"
      [] s = "False" -> "false"
      [] OTHER -> s

\* The text of a str, as a sequence of pieces (what .encode() is applied to).
TextOf(v) ==
    CASE DOMAIN v = {"str"} -> <<v.str>>
      [] IsStamp(v) -> <<v.form, ToString(v.at)>>
      [] DOMAIN v = {"chars"} -> v.chars
      [] OTHER -> <<"sha256">> \o v.sha256

\* len(s) of a str
PyLen(v) ==
    CASE DOMAIN v = {"str"} -> Len(v.str)
      [] IsStamp(v) -> 20
      [] DOMAIN v = {"chars"} -> Len(v.chars)
      [] OTHER -> HexDigestLen

\* s[:n] of a str
Slice(v, n) ==
    IF DOMAIN v = {"chars"}
    THEN [chars |-> SubSeq(v.chars, 1, IF Len(v.chars) < n THEN Len(v.chars) ELSE n)]
    ELSE v

\* hashlib.sha256(text.encode()).hexdigest(): a digest stands for the text
\* it was computed from (distinct texts, distinct digests).
Sha256(text) == [sha256 |-> text]

\* datetime.datetime.strptime(s, "%Y-%m-%dT%H:%M:%S.%fZ"): %f reads one to
\* six digits, the literal Z must end the text; anything else is ValueError.
Strptime(v) ==
    IF IsStamp(v) /\ v.form \in {"strict", "millis"}
    THEN [ok |-> TRUE, t |-> v.at, exc |-> "none"]
    ELSE [ok |-> FALSE, t |-> 0, exc |-> "ValueError"]

\* datetime.datetime.fromisoformat(s) (Python 3.11): every notation of Forms
\* parses, other text is ValueError and a non-str is TypeError.
FromIsoformat(v) ==
    IF ~IsStr(v) THEN [ok |-> FALSE, t |-> 0, exc |-> "TypeError"]
    ELSE IF IsStamp(v) THEN [ok |-> TRUE, t |-> v.at, exc |-> "none"]
    ELSE [ok |-> FALSE, t |-> 0, exc |-> "ValueError"]

\* datetime.datetime.now(datetime.timezone.utc).isoformat() at instant t
IsoformatNow(t) == Stamp(t, "iso")

\* assignees.get(key) of a dict (a non-dict has no .get: AttributeError is
\* kept out by the callers' guard).
DictGet(d, k) ==
    IF \E pr \in d.dict : pr[1] = k
    THEN (CHOOSE pr \in d.dict : pr[1] = k)[2]
    ELSE None

\* The declared fields the model follows, in declaration order (lines
\* 75-109); the fields left out are typed pass-through fields with defaults.
FieldOrder == <<"id", "name", "status", "severity", "lastReceived", "environment",
                "event_id", "fingerprint", "deleted", "dismissUntil", "dismissed",
                "assignee", "startedAt">>

Fields == {FieldOrder[i] : i \in 1..Len(FieldOrder)}

\* json.dumps of one value of a typed field: None, a bool, an int or a str
\* (nothing else is among the validated values when they are serialized).
JsonValue(v) ==
    CASE IsNone(v) -> <<"null">>
      [] IsBool(v) -> <<IF v.bool THEN "true" ELSE "false">>
      [] DOMAIN v = {"int"} -> <<ToString(v.int)>>
      [] IsStr(v) -> <<"\"">> \o TextOf(v) \o <<"\"">>
      [] OTHER -> <<"?">>

RECURSIVE JsonItems(_, _)
JsonItems(d, i) ==
    IF i > Len(FieldOrder) THEN <<>>
    ELSE IF FieldOrder[i] \in DOMAIN d
         THEN <<",", FieldOrder[i], ":">> \o JsonValue(d[FieldOrder[i]])
              \o JsonItems(d, i + 1)
         ELSE JsonItems(d, i + 1)

\* json.dumps(values) of a dict of declared fields, items joined by commas
JsonDumps(d) ==
    <<"{">> \o (IF JsonItems(d, 1) = <<>> THEN <<>> ELSE Tail(JsonItems(d, 1)))
    \o <<"}">>

-----------------------------------------------------------------------------
(* The validators of AlertDto *)

\* @validator("lastReceived", pre=True, always=True), read at instant t
validate_last_received(last_received, t) ==
    IF ~Truthy(last_received) THEN Ok(IsoformatNow(t)) ELSE Ok(last_received)

\* @validator("fingerprint", pre=True, always=True); values holds the fields
\* declared before fingerprint that validated.
assign_fingerprint_if_none(fingerprint, values) ==
    IF IsNone(fingerprint)
    THEN LET name == Get(values, "name")
             fingerprint_payload ==
                 IF ~Truthy(name) THEN JsonDumps(values) ELSE TextOf(name)
         IN  Ok(Sha256(fingerprint_payload))
    ELSE IF IsStr(fingerprint)
         THEN Ok(Slice(fingerprint, FingerprintLimit))
         ELSE Raise("TypeError")

\* @validator("deleted", pre=True, always=True)
validate_deleted(deleted, values) ==
    IF IsBool(deleted) THEN Ok(deleted)
    ELSE IF IsList(deleted)
         THEN Ok(PyBool(Get(values, "lastReceived") \in deleted.list))
         ELSE Ok(None)

\* validate_dismissed gone wrong: dismissed up to and including dismissUntil.
validate_dismissed_inclusive(dismissed, values, t) ==
    LET normalized ==
            IF IsStr(dismissed)
            THEN PyBool(DOMAIN dismissed = {"str"} /\ Lower(dismissed.str) = "true")
            ELSE dismissed
        dismiss_until == Get(values, "dismissUntil")
    IN  IF ~Truthy(normalized) THEN Ok(normalized)
        ELSE IF ~Truthy(dismiss_until) \/ dismiss_until = PyStr("forever")
             THEN Ok(normalized)
             ELSE IF Strptime(dismiss_until).ok
                  THEN Ok(PyBool(t <= Strptime(dismiss_until).t))
                  ELSE Raise("ValueError")

\* validate_dismissed gone wrong: a dismissUntil that does not parse is
\* taken as no dismissUntil.
validate_dismissed_lenient(dismissed, values, t) ==
    LET normalized ==
            IF IsStr(dismissed)
            THEN PyBool(DOMAIN dismissed = {"str"} /\ Lower(dismissed.str) = "true")
            ELSE dismissed
        dismiss_until == Get(values, "dismissUntil")
    IN  IF ~Truthy(normalized) THEN Ok(normalized)
        ELSE IF ~Truthy(dismiss_until) \/ dismiss_until = PyStr("forever")
             THEN Ok(normalized)
             ELSE IF Strptime(dismiss_until).ok
                  THEN Ok(PyBool(t < Strptime(dismiss_until).t))
                  ELSE Ok(normalized)

\* @validator("dismissed", pre=True, always=True), read at instant t
validate_dismissed(dismissed, values, t) ==
    LET normalized ==
            IF IsStr(dismissed)
            THEN PyBool(DOMAIN dismissed = {"str"} /\ Lower(dismissed.str) = "true")
            ELSE dismissed
        dismiss_until == Get(values, "dismissUntil")
    IN  IF ~Truthy(normalized) THEN Ok(normalized)
        ELSE IF ~Truthy(dismiss_until) \/ dismiss_until = PyStr("forever")
             THEN Ok(normalized)
             ELSE IF Strptime(dismiss_until).ok
                  THEN Ok(PyBool(t < Strptime(dismiss_until).t))
                  ELSE Raise("ValueError")

\* @root_validator(pre=True): the coercion of severity and status, the
\* assignees lookup, the removal of deletedAt. The result's v is the dict.
\* The table's keys are str, so assignees.get(dt), keyed by a datetime, is
\* None and `assignees.get(lastReceived) or assignees.get(dt)` is the first
\* hit when it is truthy and None otherwise.
set_default_values(values) ==
    LET severity == Get(values, "severity")
        sev == IF IsInt(severity) THEN from_number(severity)
               ELSE SeverityByValue(severity)
        v1 == Put(values, "severity",
                  IF sev.ok THEN sev.v ELSE Member("AlertSeverity", "info"))
        status == Get(values, "status")
        sta == StatusByValue(status)
        v2 == Put(v1, "status",
                  IF sta.ok THEN sta.v ELSE Member("AlertStatus", "firing"))
        lastReceived == Get(v2, "lastReceived")
        assignees == Get(v2, "assignees")
        v3 == Pop(v2, "assignees")
        assignee == IF Truthy(DictGet(assignees, lastReceived))
                    THEN DictGet(assignees, lastReceived)
                    ELSE None
        v4 == IF Truthy(assignees) THEN Put(v3, "assignee", assignee) ELSE v3
    IN  IF "lastReceived" \notin DOMAIN v2 THEN Raise("KeyError")
        ELSE IF Truthy(assignees) /\ ~FromIsoformat(lastReceived).ok
             THEN Raise(FromIsoformat(lastReceived).exc)
        ELSE IF Truthy(assignees) /\ ~IsDict(assignees) THEN Raise("AttributeError")
        ELSE Ok(Pop(v4, "deletedAt"))

\* validate_status gone wrong: the status is left as it was typed.
validate_status_unchanged(values) == values

\* @root_validator(pre=False)
validate_status(values) ==
    IF Truthy(Get(values, "dismissed"))
    THEN Put(values, "status", Member("AlertStatus", "suppressed"))
    ELSE values

-----------------------------------------------------------------------------
(* pydantic's typing of the declared fields *)

\* a field declared str
StrField(v) ==
    IF IsStr(v) THEN Ok(v)
    ELSE IF IsBool(v) THEN Ok(PyStr(IF v.bool THEN "True" ELSE "False"))
    ELSE IF DOMAIN v = {"int"} THEN Ok(PyStr(ToString(v.int)))
    ELSE Raise("ValidationError")

\* a field declared str | None
OptStrField(v) == IF IsNone(v) THEN Ok(v) ELSE StrField(v)

\* a field declared bool
BoolField(v) ==
    IF IsBool(v) THEN Ok(v)
    ELSE IF DOMAIN v = {"int"} /\ v.int \in {0, 1} THEN Ok(PyBool(v.int = 1))
    ELSE IF DOMAIN v = {"str"} /\ Lower(v.str) \in {"true", "yes", "on", "1", "t", "y"}
         THEN Ok(PyBool(TRUE))
    ELSE IF DOMAIN v = {"str"} /\ Lower(v.str) \in {"false", "no", "off", "0", "f", "n"}
         THEN Ok(PyBool(FALSE))
    ELSE Raise("ValidationError")

\* a field declared AlertStatus under Config.use_enum_values: the member's value
StatusField(v) ==
    IF StatusByValue(v).ok THEN Ok(PyStr(StatusByValue(v).v.enum))
    ELSE Raise("ValidationError")

\* a field declared AlertSeverity under Config.use_enum_values
SeverityField(v) ==
    IF SeverityByValue(v).ok THEN Ok(PyStr(SeverityByValue(v).v.enum))
    ELSE Raise("ValidationError")

\* The defaults of the fields that have one.
Default ==
    [environment |-> PyStr("undefined"), event_id |-> None, fingerprint |-> None,
     deleted |-> PyBool(FALSE), dismissUntil |-> None, dismissed |-> PyBool(FALSE),
     assignee |-> None, startedAt |-> None]

\* The state of a validation run: the values that validated, the fields in error.
Checked(st, f, r) ==
    IF r.ok THEN [values |-> Put(st.values, f, r.v), errors |-> st.errors]
    ELSE [values |-> st.values, errors |-> st.errors \cup {f}]

\* A required field: missing is an error and no validator runs.
Required(st, input, f, r) ==
    IF f \in DOMAIN input THEN Checked(st, f, r)
    ELSE [values |-> st.values, errors |-> st.errors \cup {f}]

\* A field with a default and no always-validator: the default is not validated.
Optional(st, input, f, r) ==
    IF f \in DOMAIN input THEN Checked(st, f, r)
    ELSE [values |-> Put(st.values, f, Default[f]), errors |-> st.errors]

\* The value handed to an always-validator: the input's, or the default.
Given(input, f) == IF f \in DOMAIN input THEN input[f] ELSE Default[f]

-----------------------------------------------------------------------------
(* Payloads *)

Empty == [k \in {} |-> None]

\* One key of a payload, or the key left out.
Opt(k, vs) == {Empty} \cup {k :> v : v \in vs}

Instants == 0..MaxTime

Minimal == [id |-> PyStr("1"), name |-> PyStr("x"), lastReceived |-> Stamp(0, "iso")]

Base == Minimal @@ [status |-> PyStr("firing"), severity |-> PyStr("critical")]

StatusTexts == {PyStr(s) : s \in AlertStatus \cup {"bogus", "FIRING"}}

SeverityValues ==
    {PyInt(n) : n \in 0..6} \cup {PyBool(TRUE), None}
    \cup {PyStr(s) : s \in DOMAIN AlertSeverity \cup {"nonexistent", "CRITICAL"}}

DismissedValues ==
    {PyBool(TRUE), PyBool(FALSE), None}
    \cup {PyStr(s) : s \in {"true", "TRUE", "false", "yes"}}

DismissUntilValues ==
    {None, PyStr(""), PyStr("forever"), PyStr("tomorrow")}
    \cup {Stamp(t, "strict") : t \in Instants}
    \cup {Stamp(1, f) : f \in Forms}

FingerprintValues ==
    {None, PyInt(7)}
    \cup {Chars(n) : n \in {0, 3, FingerprintLimit, FingerprintLimit + 1,
                            FingerprintLimit + MaxExcess}}

AssigneesValues ==
    {None, Dict({}), Dict({<<Stamp(0, "iso"), PyStr("alice")>>}),
     Dict({<<Stamp(1, "iso"), PyStr("bob")>>, <<PyStr(""), PyStr("bob")>>})}

\* status and the dismissal that may override it
StatusPayloads ==
    {Minimal @@ a @@ b @@ c :
        a \in Opt("status", StatusTexts),
        b \in Opt("dismissed", {PyBool(TRUE), PyBool(FALSE), PyStr("true")}),
        c \in Opt("dismissUntil", {Stamp(1, "strict")})}

\* the dismissed flag and dismissUntil
DismissPayloads ==
    {Base @@ a @@ b :
        a \in Opt("dismissed", DismissedValues),
        b \in Opt("dismissUntil", DismissUntilValues)}

\* severity and status
SeverityPayloads ==
    {Minimal @@ a @@ b :
        a \in Opt("severity", SeverityValues),
        b \in Opt("status", {PyStr("resolved"), PyStr("bogus"), PyInt(1)})}

\* fingerprint, name and lastReceived
FingerprintPayloads ==
    {a @@ b @@ c @@ Base :
        a \in Opt("fingerprint", FingerprintValues),
        b \in Opt("name", {PyStr("")}),
        c \in Opt("lastReceived", {PyStr(""), None})}

\* the assignees table, assignee, deletedAt and lastReceived
AssigneesPayloads ==
    {a @@ b @@ c @@ d @@ Base :
        a \in Opt("assignees", AssigneesValues),
        b \in Opt("assignee", {PyStr("carol")}),
        c \in Opt("lastReceived", {PyStr(""), PyStr("yesterday"), Stamp(1, "strict")}),
        d \in Opt("deletedAt", {Stamp(0, "iso")})}

\* payloads that lack required keys
PartialPayloads ==
    {[k \in ks |-> Base[k]] : ks \in SUBSET DOMAIN Base}

\* the deleted flag, the other fields and an undeclared key
OtherPayloads ==
    {a @@ b @@ c @@ Base :
        a \in Opt("deleted", {PyBool(TRUE), List({Stamp(0, "iso")}),
                              List({Stamp(1, "iso")}), PyStr("x")}),
        b \in Opt("lastReceived", {Stamp(1, "iso")}),
        c \in (Opt("event_id", {PyStr("e1")}) \cup Opt("startedAt", {Stamp(0, "iso")})
               \cup Opt("environment", {PyStr("prod")})
               \cup Opt("ticket_url", {PyStr("u")}))}

Payloads ==
    StatusPayloads \cup DismissPayloads \cup SeverityPayloads \cup FingerprintPayloads
    \cup AssigneesPayloads \cup PartialPayloads \cup OtherPayloads

-----------------------------------------------------------------------------
(* The construction of an AlertDto: pydantic's validate_model, step by step *)

VARIABLES
    now,      \* the UTC clock
    pc,       \* where the construction stands
    raw,      \* the payload handed to AlertDto(**payload)
    input,    \* the mapping the validators read (the pre root validator's result)
    values,   \* the values validated so far; at "done", the record's dict()
    errors,   \* the fields whose validation failed
    readAt,   \* the instants at which the two clock-reading validators ran
    kept      \* an earlier result the caller holds on to

vars == <<now, pc, raw, input, values, errors, readAt, kept>>

NotRead == [lastReceived |-> 0 - 1, dismissed |-> 0 - 1]

Nothing == [cls |-> "NoneType", fields |-> Empty, raw |-> Empty]

Init ==
    /\ now \in Instants
    /\ pc = "idle"
    /\ raw = Empty
    /\ input = Empty
    /\ values = Empty
    /\ errors = {}
    /\ readAt = NotRead
    /\ kept = Nothing

Tick ==
    /\ now < MaxTime
    /\ now' = now + 1
    /\ UNCHANGED <<pc, raw, input, values, errors, readAt, kept>>

\* AlertDto(**payload) is called.
Start(payload) ==
    /\ pc = "idle"
    /\ pc' = "pre_root"
    /\ raw' = payload
    /\ input' = payload
    /\ values' = Empty
    /\ errors' = {}
    /\ readAt' = NotRead
    /\ UNCHANGED <<now, kept>>

Receive == \E payload \in Payloads : Start(payload)

\* The pre root validator. ValueError and TypeError become a ValidationError;
\* any other exception leaves the constructor as it is.
SetDefaultValues ==
    /\ pc = "pre_root"
    /\ LET r == set_default_values(input)
       IN  /\ pc' = IF r.ok THEN "last_received"
                    ELSE IF r.exc \in {"ValueError", "TypeError"} THEN "invalid"
                    ELSE "raised"
           /\ input' = IF r.ok THEN r.v ELSE input
    /\ UNCHANGED <<now, raw, values, errors, readAt, kept>>

\* A pre validator followed by the field's typing.
Then(r, typed) == IF r.ok THEN typed ELSE r

\* The fields id, name, status, severity, lastReceived.
ValidateLastReceived ==
    /\ pc = "last_received"
    /\ LET s0 == [values |-> values, errors |-> errors]
           s1 == Required(s0, input, "id", StrField(Get(input, "id")))
           s2 == Required(s1, input, "name", StrField(Get(input, "name")))
           s3 == Required(s2, input, "status", StatusField(Get(input, "status")))
           s4 == Required(s3, input, "severity", SeverityField(Get(input, "severity")))
           lr == validate_last_received(Get(input, "lastReceived"), now)
           s5 == Required(s4, input, "lastReceived", Then(lr, StrField(lr.v)))
       IN  /\ values' = s5.values
           /\ errors' = s5.errors
    /\ readAt' = [readAt EXCEPT !.lastReceived = now]
    /\ pc' = "fingerprint"
    /\ UNCHANGED <<now, raw, input, kept>>

\* The fields environment, event_id, fingerprint.
AssignFingerprintIfNone ==
    /\ pc = "fingerprint"
    /\ LET s0 == [values |-> values, errors |-> errors]
           s1 == Optional(s0, input, "environment", StrField(Get(input, "environment")))
           s2 == Optional(s1, input, "event_id", OptStrField(Get(input, "event_id")))
           fp == assign_fingerprint_if_none(Given(input, "fingerprint"), s2.values)
           s3 == Checked(s2, "fingerprint", Then(fp, OptStrField(fp.v)))
       IN  /\ values' = s3.values
           /\ errors' = s3.errors
    /\ pc' = "deleted"
    /\ UNCHANGED <<now, raw, input, readAt, kept>>

\* The field deleted.
ValidateDeleted ==
    /\ pc = "deleted"
    /\ LET s0 == [values |-> values, errors |-> errors]
           de == validate_deleted(Given(input, "deleted"), values)
           s1 == Checked(s0, "deleted", Then(de, BoolField(de.v)))
       IN  /\ values' = s1.values
           /\ errors' = s1.errors
    /\ pc' = "dismissed"
    /\ UNCHANGED <<now, raw, input, readAt, kept>>

\* The fields dismissUntil, dismissed.
ValidateDismissed ==
    /\ pc = "dismissed"
    /\ LET s0 == [values |-> values, errors |-> errors]
           s1 == Optional(s0, input, "dismissUntil",
                          OptStrField(Get(input, "dismissUntil")))
           di == validate_dismissed(Given(input, "dismissed"), s1.values, now)
           s2 == Checked(s1, "dismissed", Then(di, BoolField(di.v)))
       IN  /\ values' = s2.values
           /\ errors' = s2.errors
    /\ readAt' = [readAt EXCEPT !.dismissed = now]
    /\ pc' = "post_root"
    /\ UNCHANGED <<now, raw, input, kept>>

\* Config.extra = Extra.allow: the keys that are no declared field, as given.
Extras(st, given) ==
    [k \in DOMAIN st \cup (DOMAIN given \ Fields) |->
        IF k \in DOMAIN st THEN st[k] ELSE given[k]]

\* The fields assignee, startedAt, the extras, the post root validator, and
\* the end of validate_model: a record, or ValidationError.
ValidateStatus ==
    /\ pc = "post_root"
    /\ LET s0 == [values |-> values, errors |-> errors]
           s1 == Optional(s0, input, "assignee", OptStrField(Get(input, "assignee")))
           s2 == Optional(s1, input, "startedAt", OptStrField(Get(input, "startedAt")))
       IN  /\ values' = validate_status(Extras(s2.values, input))
           /\ errors' = s2.errors
           /\ pc' = IF s2.errors = {} THEN "done" ELSE "invalid"
    /\ UNCHANGED <<now, raw, input, readAt, kept>>

Ended == pc \in {"done", "invalid", "raised"}

\* The constructor has returned or raised; the caller moves on.
Return ==
    /\ Ended
    /\ pc' = "idle"
    /\ raw' = Empty
    /\ input' = Empty
    /\ values' = Empty
    /\ errors' = {}
    /\ readAt' = NotRead
    /\ UNCHANGED <<now, kept>>

Next ==
    \/ Tick
    \/ Receive
    \/ SetDefaultValues
    \/ ValidateLastReceived
    \/ AssignFingerprintIfNone
    \/ ValidateDeleted
    \/ ValidateDismissed
    \/ ValidateStatus
    \/ Return

Spec == Init /\ [][Next]_vars

-----------------------------------------------------------------------------
(* Two constructions, the first result kept by the caller *)

PairPayloads ==
    {a @@ b @@ Base :
        a \in Opt("name", {PyStr("")}),
        b \in (Opt("lastReceived", {Stamp(1, "iso"), PyStr("")})
               \cup Opt("event_id", {PyStr("e1")})
               \cup Opt("startedAt", {Stamp(0, "iso")})
               \cup Opt("environment", {PyStr("prod")})
               \cup Opt("ticket_url", {PyStr("u")})
               \cup Opt("fingerprint", {Chars(3)})
               \cup Opt("dismissed", {PyBool(TRUE)})
               \cup Opt("id", {None}))}
    \cup {[name |-> PyStr("y")] @@ Base}

ReceivePair == \E payload \in PairPayloads : Start(payload)

\* The caller keeps the record that was built, with the payload it came from.
Keep ==
    /\ pc = "done"
    /\ kept' = [cls |-> "AlertDto", fields |-> values, raw |-> raw]
    /\ pc' = "idle"
    /\ raw' = Empty
    /\ input' = Empty
    /\ values' = Empty
    /\ errors' = {}
    /\ readAt' = NotRead
    /\ UNCHANGED now

NextPair ==
    \/ Tick
    \/ ReceivePair
    \/ SetDefaultValues
    \/ ValidateLastReceived
    \/ AssignFingerprintIfNone
    \/ ValidateDeleted
    \/ ValidateDismissed
    \/ ValidateStatus
    \/ Return
    \/ Keep

SpecPair == Init /\ [][NextPair]_vars

-----------------------------------------------------------------------------
(* AlertDto.__eq__, __ne__ and __str__ *)

\* exclude_fields gone wrong: event_id is compared.
exclude_fields_short == {"lastReceived", "startedAt"}

exclude_fields == {"lastReceived", "startedAt", "event_id"}

\* dict_self.pop(field, None) for every excluded field
Compared(d) == [k \in DOMAIN d \ exclude_fields |-> d[k]]

\* self.__eq__(other): self is a record's dict(), other any value with its class
__eq__(self, other) ==
    IF other.cls = "AlertDto" THEN Compared(self) = Compared(other.fields)
    ELSE FALSE

__ne__(self, other) == ~__eq__(self, other)

\* The member names of the two enumerations.
MemberName ==
    [firing |-> "FIRING", resolved |-> "RESOLVED", acknowledged |-> "ACKNOWLEDGED",
     suppressed |-> "SUPPRESSED", pending |-> "PENDING", critical |-> "CRITICAL",
     high |-> "HIGH", warning |-> "WARNING", info |-> "INFO", low |-> "LOW"]

\* str(member): AlertSeverity defines __str__ as the value, AlertStatus
\* keeps Enum's own, "AlertStatus.NAME".
EnumStr(v) ==
    IF v.cls = "AlertSeverity" THEN <<v.enum>>
    ELSE <<v.cls, ".", MemberName[v.enum]>>

\* json.dumps(value, default=str) of one value of dict()
Rendered(v) ==
    IF IsEnum(v) THEN <<"\"">> \o EnumStr(v) \o <<"\"">> ELSE JsonValue(v)

\* __str__: json.dumps(self.dict(), indent=4, default=str), key by key
__str__(self) == [k \in DOMAIN self |-> Rendered(self[k])]

-----------------------------------------------------------------------------
(* The properties *)

\* A record has been built from raw.
Built == pc = "done"

\* The canonical name of a status or severity, member or value.
NameOf(v) == IF IsEnum(v) THEN v.enum ELSE v.str

CanonicalStatus == {PyStr(s) : s \in {"firing", "resolved", "acknowledged",
                                      "suppressed", "pending"}}

CanonicalSeverity == {PyStr(s) : s \in {"critical", "high", "warning", "info", "low"}}

RankName == <<"low", "info", "warning", "high", "critical">>

\* What the raw status coerces to.
StatusReference(v) == IF v \in CanonicalStatus THEN v.str ELSE "firing"

\* What the raw severity coerces to.
SeverityReference(v) ==
    IF IsInt(v) /\ IntOf(v) \in 1..5 THEN RankName[IntOf(v)]
    ELSE IF v \in CanonicalSeverity THEN v.str
    ELSE "info"

\* The raw dismissed flag, normalized: a str is true only as "true" in any
\* case, a bool is itself.
FlagReference(p) ==
    LET d == IF "dismissed" \in DOMAIN p THEN p["dismissed"] ELSE PyBool(FALSE)
    IN  IF IsBool(d) THEN d.bool
        ELSE d \in {PyStr("true"), PyStr("True"), PyStr("TRUE")}

\* The resolved dismissed value of payload p when the clock reads t.
DismissedReference(p, t) ==
    LET u == Get(p, "dismissUntil")
    IN  IF ~FlagReference(p) THEN FALSE
        ELSE IF u \in {None, PyStr(""), PyStr("forever")} THEN TRUE
        ELSE IsStamp(u) /\ t < u.at

\* id and name are given and are text.
HasIdAndName(p) ==
    /\ "id" \in DOMAIN p /\ IsStr(p["id"])
    /\ "name" \in DOMAIN p /\ IsStr(p["name"])

\* C1: once a record is built, its status is suppressed if its resolved
\* dismissed value is true, whatever the raw status, and otherwise it is the
\* coerced raw status.
DismissOverride ==
    Built =>
        IF values["dismissed"] = PyBool(TRUE)
        THEN NameOf(values["status"]) = "suppressed"
        ELSE NameOf(values["status"]) = StatusReference(Get(raw, "status"))

\* C1 happens: a record was built as dismissed from a raw status of resolved.
DismissOverrideWitness ==
    /\ Built
    /\ values["dismissed"] = PyBool(TRUE)
    /\ Get(raw, "status") = PyStr("resolved")
    /\ NameOf(values["status"]) = "suppressed"

\* C2: a payload with id and name and no lastReceived key is built into a
\* record whose lastReceived is the clock's instant in ISO-8601; no step
\* before the defaulting aborts.
MissingLastReceivedDefaulted ==
    (HasIdAndName(raw) /\ "lastReceived" \notin DOMAIN raw) =>
        /\ pc \notin {"raised", "invalid"}
        /\ Built => values["lastReceived"] = IsoformatNow(readAt.lastReceived)

\* No explicit fingerprint in payload p.
NoFingerprint(p) == Get(p, "fingerprint") = None

\* C3: two constructions without an explicit fingerprint, at any two instants,
\* give the same fingerprint when the names are the same and non-empty, or
\* when the name is empty and the two payloads are identical.
FingerprintDeterministic ==
    (Built /\ kept.cls = "AlertDto" /\ NoFingerprint(raw) /\ NoFingerprint(kept.raw)) =>
        LET n1 == Get(kept.raw, "name")
            n2 == Get(raw, "name")
        IN  ((Truthy(n1) /\ n1 = n2) \/ (~Truthy(n1) /\ kept.raw = raw)) =>
                kept.fields["fingerprint"] = values["fingerprint"]

\* C4: after the fingerprint step, for an explicit fingerprint that is null
\* or any text and any name, the fingerprint is a non-null, non-empty text of
\* at most 255 characters, and an explicit one is its own first 255 characters.
FingerprintBounded ==
    (pc \in {"deleted", "dismissed", "post_root", "done"}
     /\ (IsNone(Given(raw, "fingerprint")) \/ IsStr(Given(raw, "fingerprint")))) =>
        /\ "fingerprint" \in DOMAIN values
        /\ IsStr(values["fingerprint"])
        /\ PyLen(values["fingerprint"]) \in 1..255
        /\ IsStr(Given(raw, "fingerprint")) =>
               /\ PyLen(values["fingerprint"]) <= PyLen(raw["fingerprint"])
               /\ \A i \in 1..PyLen(values["fingerprint"]) :
                      values["fingerprint"].chars[i] = raw["fingerprint"].chars[i]
               /\ PyLen(raw["fingerprint"]) >= 255 => PyLen(values["fingerprint"]) = 255

\* Only severity and status accompany a valid id, name and lastReceived.
OnlySeverityAndStatus(p) ==
    /\ HasIdAndName(p)
    /\ "lastReceived" \in DOMAIN p /\ IsStr(p["lastReceived"])
    /\ DOMAIN p \subseteq {"id", "name", "lastReceived", "severity", "status"}

\* C5: severity and status never fail validation; an integer rank 1..5 or a
\* canonical name gives that severity and anything else info, a canonical
\* status name gives that status and anything else firing; with valid id,
\* name and lastReceived the construction does not abort.
DegradedDefaults ==
    /\ "severity" \notin errors
    /\ "status" \notin errors
    /\ OnlySeverityAndStatus(raw) => pc \notin {"raised", "invalid"}
    /\ Built =>
        /\ values["severity"] = PyStr(SeverityReference(Get(raw, "severity")))
        /\ values["dismissed"] = PyBool(FALSE) =>
               values["status"] = PyStr(StatusReference(Get(raw, "status")))

\* C5 happens: an unknown severity and status were built into info and firing.
DegradedDefaultsWitness ==
    /\ Built
    /\ Get(raw, "severity") = PyStr("nonexistent")
    /\ Get(raw, "status") = PyStr("bogus")
    /\ values["severity"] = PyStr("info")
    /\ values["status"] = PyStr("firing")

\* dismissUntil is given, is not "forever" and is not YYYY-MM-DDTHH:MM:SS.ffffffZ.
OffPattern(u) == Truthy(u) /\ u # PyStr("forever") /\ ~(IsStamp(u) /\ u.form = "strict")

\* dismissUntil is given, is not "forever" and strptime cannot read it
\* (the fraction may have one to six digits).
Unreadable(u) ==
    Truthy(u) /\ u # PyStr("forever") /\ ~(IsStamp(u) /\ u.form \in {"strict", "millis"})

DismissedResolved ==
    "dismissed" \in DOMAIN values =>
        values["dismissed"] = PyBool(DismissedReference(raw, readAt.dismissed))

\* C7 happens: dismissed "TRUE" until the very instant the clock reads.
DismissedResolvedWitness ==
    /\ Built
    /\ Get(raw, "dismissed") = PyStr("TRUE")
    /\ Get(raw, "dismissUntil") = Stamp(readAt.dismissed, "strict")
    /\ values["dismissed"] = PyBool(FALSE)

\* The two dicts differ in none but lastReceived, startedAt and event_id.
SameButEnvironment(a, b) ==
    LET ks(d) == DOMAIN d \ {"lastReceived", "startedAt", "event_id"}
    IN  ks(a) = ks(b) /\ \A k \in ks(a) : a[k] = b[k]

\* C8: two records are equal exactly when they differ in none but
\* lastReceived, startedAt and event_id; a record equals no value that is
\* not a record; != is the negation of ==.
EqualityExclusion ==
    (Built /\ kept.cls = "AlertDto") =>
        /\ __eq__(values, kept) = SameButEnvironment(values, kept.fields)
        /\ __eq__(kept.fields, [kept EXCEPT !.fields = values])
               = SameButEnvironment(values, kept.fields)
        /\ ~__eq__(values, [kept EXCEPT !.cls = "dict"])
        /\ ~__eq__(values, [kept EXCEPT !.cls = "dict", !.fields = values])
        /\ ~__eq__(values, Nothing)
        /\ __ne__(values, kept) = ~__eq__(values, kept)
        /\ __ne__(values, Nothing)

\* C8 happens: two records that differ, and only in the excluded fields.
EqualityExclusionWitness ==
    /\ Built
    /\ kept.cls = "AlertDto"
    /\ values["event_id"] # kept.fields["event_id"]
    /\ __eq__(values, kept)

\* C9: a built record holds severity and status as canonical values of their
\* enumerations, in the same representation, and renders both in JSON as
\* their lowercase names.
EnumsUniform ==
    Built =>
        /\ values["status"] \in CanonicalStatus
        /\ values["severity"] \in CanonicalSeverity
        /\ __str__(values)["status"] = <<"\"", NameOf(values["status"]), "\"">>
        /\ __str__(values)["severity"] = <<"\"", NameOf(values["severity"]), "\"">>

\* What `a or None` gives.
OrNone(v) == IF Truthy(v) THEN v ELSE None

\* C10: a non-empty assignees table sets assignee to the entry keyed by
\* lastReceived (none without an entry), an empty lastReceived does not
\* abort the lookup, neither assignees nor deletedAt is retained, and
\* without a table the payload's assignee is left as it is.
AssigneesLookup ==
    LET table == Get(raw, "assignees")
        lr == Get(raw, "lastReceived")
    IN  /\ (HasIdAndName(raw) /\ Truthy(table) /\ "lastReceived" \in DOMAIN raw
            /\ (lr = PyStr("") \/ IsStamp(lr))) => pc \notin {"raised", "invalid"}
        /\ (Built /\ Truthy(table)) =>
               values["assignee"] = OrNone(DictGet(table, values["lastReceived"]))
        /\ (Built /\ ~Truthy(table)) => values["assignee"] = Get(raw, "assignee")
        /\ Built => DOMAIN values \cap {"assignees", "deletedAt"} = {}

=============================================================================
